---- MODULE Spec2Model ----
(***************************************************************************)
(* Item-based collaborative-filtering recommender (recommender.py).        *)
(*                                                                         *)
(* Ratings are the integers 0, 2, 4, 5 (the floats 0.0, 2.0, 4.0, 5.0).    *)
(* A cosine similarity s in [0, 1] is kept in fixed point as               *)
(* floor(SCALE * s) of its exact value, so 1.0 is SCALE and 0.0 is 0; the  *)
(* rounding of binary64 arithmetic is not represented.                     *)
(* An ordering of equal scores is not fixed by the code's contract         *)
(* (pandas sort_values, dict order): every order of the ties is a possible *)
(* outcome of a sort.                                                      *)
(***************************************************************************)
EXTENDS Integers, Sequences, FiniteSets, TLC

VARIABLES
    rating_file,         \* what is stored at rating_file_path
    meta_file,           \* what is stored at travel_meta_path
    pc,                  \* position of the driver: start, loaded, built, ...
    ratings_df,          \* the loaded rating table
    travel_meta,         \* the loaded metadata catalog
    item_similarity_df,  \* item_similarity_df[column][row]
    op,                  \* name of the last function called
    target,              \* target_item_id / target_user_id of the last call
    top_n,               \* top_n of the last call
    item_ids,            \* item_ids of the last get_items_info call
    result,              \* value returned by the last call
    raised               \* exception raised by the last call, "None" if none

vars == <<rating_file, meta_file, pc, ratings_df, travel_meta,
          item_similarity_df, op, target, top_n, item_ids, result, raised>>

----------------------------------------------------------------------------
(* Bounds *)

MaxTopN == 3
MaxRows == 4
MaxCategoryLen == 2
MaxItemIds == 2
SCALE == 100

(* Program constant: the favorite threshold, rating >= 4.0 *)
FavoriteThreshold == 4

Users == {"U1", "U2"}
UserIds == Users \cup {"U3"}
Items == {"CJU001", "CJU002", "CJU003"}
QueryItems == Items \cup {"CJU004"}
ItemIds == QueryItems \cup {"UNKNOWN_ID"}
MetaIds == {"CJU001", "CJU002", "UNKNOWN_ID"}
Ratings == {0, 2, 4, 5}
(* top_n is any int: a negative one makes head() and [:top_n] drop from the end *)
TopNs == (0 - 1) .. MaxTopN
RatingColumns == {"user_id", "item_id", "rating"}

----------------------------------------------------------------------------
(* Generic helpers *)

Min(a, b) == IF a <= b THEN a ELSE b
Max(a, b) == IF a >= b THEN a ELSE b

Range(s) == {s[k] : k \in DOMAIN s}

RECURSIVE SumOver(_, _)
SumOver(f, S) ==
    IF S = {} THEN 0
    ELSE LET x == CHOOSE y \in S : TRUE
         IN  f[x] + SumOver(f, S \ {x})

(* floor(SCALE * num / sqrt(den2)) for num >= 0, den2 > 0, num^2 <= den2 *)
ScaledRatio(num, den2) ==
    CHOOSE r \in 0 .. SCALE :
        /\ r * r * den2 <= SCALE * SCALE * num * num
        /\ (r = SCALE \/ (r + 1) * (r + 1) * den2 > SCALE * SCALE * num * num)

(* Python slice seq[:n] and pandas head(n): a negative n drops the last -n *)
Take(s, n) ==
    LET k == IF n >= 0 THEN Min(n, Len(s)) ELSE Max(Len(s) + n, 0)
    IN  SubSeq(s, 1, k)

Outcome(v) == [raised |-> "None", value |-> v]
Raise(e) == [raised |-> e, value |-> <<>>]

----------------------------------------------------------------------------
(* Input sources *)

MissingFile == [kind |-> "missing", columns |-> {}, rows |-> {}]
UnparsableFile == [kind |-> "unparsable", columns |-> {}, rows |-> {}]

(* A CSV file with header `columns`; each row keeps only those columns *)
CsvFile(columns, rows) ==
    [kind |-> "table", columns |-> columns,
     rows |-> {[c \in columns |-> r[c]] : r \in rows}]

(* A JSON document: a sequence of <<category, list of item objects>> *)
JsonFile(doc) == [kind |-> "document", columns |-> {}, rows |-> doc]

Record(u, i, x) == [user_id |-> u, item_id |-> i, rating |-> x]

NoRating == 0 - 1

(* Rating tables of at most MaxRows rows, one record at most per
   (user_id, item_id) pair: pivot_table would average duplicates *)
RatingTables ==
    {t \in {{Record(p[1], p[2], f[p]) : p \in {q \in Users \X Items : f[q] # NoRating}} :
                f \in [Users \X Items -> Ratings \cup {NoRating}]} :
        Cardinality(t) <= MaxRows}

NoTable == [columns |-> {}, rows |-> {}]
NoCatalog == <<>>
NoMatrix == [i \in {} |-> 0]
EmptyDict == [i \in {} |-> 0]

----------------------------------------------------------------------------
(* load_data *)

(* pd.read_csv *)
read_csv(file) ==
    CASE file.kind = "missing" -> Raise("FileNotFoundError")
      [] file.kind = "unparsable" -> Raise("ParserError")
      [] OTHER -> Outcome([columns |-> file.columns, rows |-> file.rows])

(* open(...) and json.load *)
json_load(file) ==
    CASE file.kind = "missing" -> Raise("FileNotFoundError")
      [] file.kind = "unparsable" -> Raise("JSONDecodeError")
      [] OTHER -> Outcome(file.rows)

load_data(rating_file_path, travel_meta_path) ==
    LET csv == read_csv(rating_file_path)
        meta == json_load(travel_meta_path)
    IN  IF csv.raised # "None" THEN Raise(csv.raised)
        ELSE IF meta.raised # "None" THEN Raise(meta.raised)
        ELSE Outcome(<<csv.value, meta.value>>)

----------------------------------------------------------------------------
(* create_item_similarity_matrix *)

(* pivot_table(...).fillna(0): cell (user, item), 0 where there is no record *)
PivotCell(rows, u, i) ==
    IF \E r \in rows : r.user_id = u /\ r.item_id = i
    THEN (CHOOSE r \in rows : r.user_id = u /\ r.item_id = i).rating
    ELSE 0

PivotUsers(rows) == {r.user_id : r \in rows}
PivotItems(rows) == {r.item_id : r \in rows}

Dot(rows, i, j) ==
    SumOver([u \in PivotUsers(rows) |-> PivotCell(rows, u, i) * PivotCell(rows, u, j)],
            PivotUsers(rows))

CosineDiagonalOne(rows, i, j) ==
    IF i = j THEN SCALE
    ELSE IF Dot(rows, i, i) = 0 \/ Dot(rows, j, j) = 0 THEN 0
    ELSE ScaledRatio(Dot(rows, i, j), Dot(rows, i, i) * Dot(rows, j, j))

CosineUnnormalised(rows, i, j) == Dot(rows, i, j)

(* sklearn cosine_similarity: dot(a, b) / (|a| * |b|), a zero row giving 0 *)
cosine_similarity(rows, i, j) ==
    IF Dot(rows, i, i) = 0 \/ Dot(rows, j, j) = 0 THEN 0
    ELSE ScaledRatio(Dot(rows, i, j), Dot(rows, i, i) * Dot(rows, j, j))

create_item_similarity_matrix(df) ==
    IF ~(RatingColumns \subseteq df.columns) THEN Raise("KeyError")
    ELSE IF df.rows = {} THEN Raise("ValueError")
    ELSE Outcome([c \in PivotItems(df.rows) |->
                    [r \in PivotItems(df.rows) |-> cosine_similarity(df.rows, r, c)]])

----------------------------------------------------------------------------
(* Series and dict helpers *)

(* Series.drop(key) / drop(key, errors="ignore") on a series that may hold key *)
Drop(series, key) == [k \in (DOMAIN series) \ {key} |-> series[k]]

(* Every order of the keys of `scores` with non-increasing score *)
DescendingOrders(scores) ==
    LET keys == DOMAIN scores
        n == Cardinality(keys)
    IN  {s \in [1 .. n -> keys] :
            /\ \A a, b \in 1 .. n : a # b => s[a] # s[b]
            /\ \A a \in 1 .. n : a < n => scores[s[a]] >= scores[s[a + 1]]}

AscendingOrders(scores) ==
    LET keys == DOMAIN scores
        n == Cardinality(keys)
    IN  {s \in [1 .. n -> keys] :
            /\ \A a, b \in 1 .. n : a # b => s[a] # s[b]
            /\ \A a \in 1 .. n : a < n => scores[s[a]] <= scores[s[a + 1]]}

(* Series.sort_values(ascending=False) *)
sort_values(series) == DescendingOrders(series)

----------------------------------------------------------------------------
(* recommend_items *)

recommend_items_unguarded(target_item_id, similarity, n) ==
    IF target_item_id \notin DOMAIN similarity THEN {Raise("KeyError")}
    ELSE {Outcome(Take(s, n)) :
            s \in sort_values(Drop(similarity[target_item_id], target_item_id))}

recommend_items(target_item_id, similarity, n) ==
    IF target_item_id \notin DOMAIN similarity THEN {Outcome(<<>>)}
    ELSE {Outcome(Take(s, n)) :
            s \in sort_values(Drop(similarity[target_item_id], target_item_id))}

----------------------------------------------------------------------------
(* recommend_for_user *)

UserRatings(rows, target_user_id) == {r \in rows : r.user_id = target_user_id}

UserFavoritesLowered(user_ratings) ==
    {r.item_id : r \in {q \in user_ratings : q.rating >= FavoriteThreshold - 2}}

UserFavorites(user_ratings) ==
    {r.item_id : r \in {q \in user_ratings : q.rating >= FavoriteThreshold}}

(* candidate_scores.get(item_id, 0) *)
Get(scores, item_id, default) ==
    IF item_id \in DOMAIN scores THEN scores[item_id] ELSE default

(* the inner loop: candidate_scores[item_id] = get(item_id, 0) + sim_score *)
AddScores(scores, sim_items) ==
    [item_id \in (DOMAIN scores) \cup (DOMAIN sim_items) |->
        IF item_id \in DOMAIN sim_items
        THEN Get(scores, item_id, 0) + sim_items[item_id]
        ELSE scores[item_id]]

RECURSIVE AccumulateOverwrite(_, _, _)
AccumulateOverwrite(favorites, similarity, scores) ==
    IF favorites = {} THEN scores
    ELSE LET fav_item == CHOOSE f \in favorites : TRUE
             rest == favorites \ {fav_item}
         IN  IF fav_item \notin DOMAIN similarity
             THEN AccumulateOverwrite(rest, similarity, scores)
             ELSE LET sim_items == Drop(similarity[fav_item], fav_item)
                  IN  AccumulateOverwrite(rest, similarity,
                        [item_id \in (DOMAIN scores) \cup (DOMAIN sim_items) |->
                            IF item_id \in DOMAIN sim_items
                            THEN sim_items[item_id] ELSE scores[item_id]])

RECURSIVE AccumulateSkipZero(_, _, _)
AccumulateSkipZero(favorites, similarity, scores) ==
    IF favorites = {} THEN scores
    ELSE LET fav_item == CHOOSE f \in favorites : TRUE
             rest == favorites \ {fav_item}
         IN  IF fav_item \notin DOMAIN similarity
             THEN AccumulateSkipZero(rest, similarity, scores)
             ELSE LET dropped == Drop(similarity[fav_item], fav_item)
                      sim_items == [k \in {x \in DOMAIN dropped : dropped[x] > 0} |->
                                        dropped[k]]
                  IN  AccumulateSkipZero(rest, similarity, AddScores(scores, sim_items))

(* the loop over user_favorites *)
RECURSIVE Accumulate(_, _, _)
Accumulate(favorites, similarity, scores) ==
    IF favorites = {} THEN scores
    ELSE LET fav_item == CHOOSE f \in favorites : TRUE
             rest == favorites \ {fav_item}
         IN  IF fav_item \notin DOMAIN similarity
             THEN Accumulate(rest, similarity, scores)
             ELSE Accumulate(rest, similarity,
                    AddScores(scores, Drop(similarity[fav_item], fav_item)))

RemoveFavoritesOnly(scores, user_ratings) ==
    [item_id \in (DOMAIN scores) \ UserFavorites(user_ratings) |-> scores[item_id]]

(* del candidate_scores[item_id] for every already rated item *)
RemoveAlreadyRated(scores, user_ratings) ==
    [item_id \in (DOMAIN scores) \ {r.item_id : r \in user_ratings} |-> scores[item_id]]

recommend_for_user(target_user_id, df, similarity, n) ==
    LET user_ratings == UserRatings(df.rows, target_user_id)
        candidate_scores ==
            RemoveAlreadyRated(
                Accumulate(UserFavorites(user_ratings), similarity, EmptyDict),
                user_ratings)
    IN  IF user_ratings = {} THEN {Outcome(<<>>)}
        ELSE {Outcome(Take(s, n)) : s \in DescendingOrders(candidate_scores)}

----------------------------------------------------------------------------
(* get_item_metadata, get_items_info *)

(* The item objects of all categories, in catalog order then list order *)
RECURSIVE AllItems(_)
AllItems(meta) ==
    IF meta = <<>> THEN <<>>
    ELSE Head(meta).items \o AllItems(Tail(meta))

(* The nested loops over a flattened catalog; None is <<>>, a record r is <<r>> *)
RECURSIVE ScanLastMatch(_, _, _)
ScanLastMatch(item_id, items, found) ==
    IF items = <<>> THEN Outcome(found)
    ELSE IF "id" \notin DOMAIN Head(items) THEN Raise("KeyError")
    ELSE IF Head(items).id = item_id
         THEN ScanLastMatch(item_id, Tail(items), <<Head(items)>>)
    ELSE ScanLastMatch(item_id, Tail(items), found)

get_item_metadata_last(item_id, meta) == ScanLastMatch(item_id, AllItems(meta), <<>>)

RECURSIVE Scan(_, _)
Scan(item_id, items) ==
    IF items = <<>> THEN Outcome(<<>>)
    ELSE IF "id" \notin DOMAIN Head(items) THEN Raise("KeyError")
    ELSE IF Head(items).id = item_id THEN Outcome(<<Head(items)>>)
    ELSE Scan(item_id, Tail(items))

get_item_metadata(item_id, meta) == Scan(item_id, AllItems(meta))

RECURSIVE get_items_info(_, _)
get_items_info(ids, meta) ==
    IF ids = <<>> THEN Outcome(<<>>)
    ELSE LET info == get_item_metadata(Head(ids), meta)
             rest == get_items_info(Tail(ids), meta)
         IN  IF info.raised # "None" THEN Raise(info.raised)
             ELSE IF rest.raised # "None" THEN Raise(rest.raised)
             ELSE Outcome(info.value \o rest.value)

----------------------------------------------------------------------------
(* Operations.  A query reads the table and the matrix and changes neither, so
   each query is taken once, from the state the build (or the load) left. *)

CallLoadData ==
    /\ pc = "start"
    /\ LET out == load_data(rating_file, meta_file)
       IN  /\ pc' = IF out.raised = "None" THEN "loaded" ELSE "load_failed"
           /\ ratings_df' = IF out.raised = "None" THEN out.value[1] ELSE ratings_df
           /\ travel_meta' = IF out.raised = "None" THEN out.value[2] ELSE travel_meta
           /\ raised' = out.raised
    /\ op' = "load_data"
    /\ UNCHANGED <<rating_file, meta_file, item_similarity_df, target, top_n,
                   item_ids, result>>

CallCreateItemSimilarityMatrix ==
    /\ pc = "loaded"
    /\ LET out == create_item_similarity_matrix(ratings_df)
       IN  /\ pc' = IF out.raised = "None" THEN "built" ELSE "build_failed"
           /\ item_similarity_df' =
                 IF out.raised = "None" THEN out.value ELSE item_similarity_df
           /\ raised' = out.raised
    /\ op' = "create_item_similarity_matrix"
    /\ UNCHANGED <<rating_file, meta_file, ratings_df, travel_meta, target, top_n,
                   item_ids, result>>

CallRecommendItems ==
    /\ pc = "built"
    /\ \E t \in ItemIds, n \in TopNs :
         \E out \in recommend_items(t, item_similarity_df, n) :
            /\ target' = t
            /\ top_n' = n
            /\ result' = out.value
            /\ raised' = out.raised
    /\ op' = "recommend_items"
    /\ pc' = "queried"
    /\ UNCHANGED <<rating_file, meta_file, ratings_df, travel_meta,
                   item_similarity_df, item_ids>>

CallRecommendForUser ==
    /\ pc = "built"
    /\ \E u \in UserIds, n \in TopNs :
         \E out \in recommend_for_user(u, ratings_df, item_similarity_df, n) :
            /\ target' = u
            /\ top_n' = n
            /\ result' = out.value
            /\ raised' = out.raised
    /\ op' = "recommend_for_user"
    /\ pc' = "queried"
    /\ UNCHANGED <<rating_file, meta_file, ratings_df, travel_meta,
                   item_similarity_df, item_ids>>

(* Lists of item ids of length at most MaxItemIds *)
ItemIdLists == UNION {[1 .. k -> MetaIds] : k \in 0 .. MaxItemIds}

CallGetItemsInfo ==
    /\ pc = "loaded"
    /\ \E ids \in ItemIdLists :
         LET out == get_items_info(ids, travel_meta)
         IN  /\ item_ids' = ids
             /\ result' = out.value
             /\ raised' = out.raised
    /\ op' = "get_items_info"
    /\ pc' = "queried"
    /\ UNCHANGED <<rating_file, meta_file, ratings_df, travel_meta,
                   item_similarity_df, target, top_n>>

----------------------------------------------------------------------------
(* Inputs *)

ScenarioA ==
    {Record("U1", "CJU001", 5), Record("U1", "CJU002", 2),
     Record("U2", "CJU001", 4), Record("U2", "CJU003", 5)}

Item(id, title) == [id |-> id, title |-> title]

DemoCatalog ==
    <<[category |-> "nature", items |-> <<Item("CJU001", "a"), Item("CJU002", "a")>>],
      [category |-> "exhibit", items |-> <<Item("CJU003", "a")>>]>>

(* Item lists of a category: at most MaxCategoryLen well-formed item objects *)
ItemObjects == {Item(i, t) : i \in {"CJU001", "CJU002"}, t \in {"a", "b"}}
ItemLists == UNION {[1 .. k -> ItemObjects] : k \in 0 .. MaxCategoryLen}
Catalogs ==
    {<<[category |-> "nature", items |-> a], [category |-> "exhibit", items |-> b]>> :
        a \in ItemLists, b \in ItemLists}

(* Symmetric matrices over an index, 1.0 on the diagonal *)
SimLevels == {0, 60}
Pairs(index) == {p \in SUBSET index : Cardinality(p) = 2}
SymmetricMatrices(index) ==
    {[c \in index |-> [r \in index |-> IF r = c THEN SCALE ELSE f[{r, c}]]] :
        f \in [Pairs(index) -> SimLevels]}
QueryMatrices == UNION {SymmetricMatrices(index) : index \in (SUBSET QueryItems) \ {{}}}

(* Tables for the user query: any ratings of U1, fixed ratings of U2 *)
QueryRatings == {2, 4, 5}
OtherUserRows == {Record("U2", "CJU001", 2), Record("U2", "CJU004", 5)}
QueryTables ==
    {{Record("U1", i, f[i]) : i \in {j \in QueryItems : f[j] # NoRating}} \cup OtherUserRows :
        f \in [QueryItems -> QueryRatings \cup {NoRating}]}

----------------------------------------------------------------------------
(* Specifications *)

InitWith(rf, mf) ==
    /\ rating_file = rf
    /\ meta_file = mf
    /\ pc = "start"
    /\ ratings_df = NoTable
    /\ travel_meta = NoCatalog
    /\ item_similarity_df = NoMatrix
    /\ op = "None"
    /\ target = "None"
    /\ top_n = 0
    /\ item_ids = <<>>
    /\ result = <<>>
    /\ raised = "None"

(* The pipeline of the driver over every bounded rating table *)
Init ==
    \E t \in RatingTables : InitWith(CsvFile(RatingColumns, t), JsonFile(DemoCatalog))

Next ==
    \/ CallLoadData
    \/ CallCreateItemSimilarityMatrix
    \/ CallRecommendItems
    \/ CallRecommendForUser

Spec == Init /\ [][Next]_vars

(* recommend_for_user as a function of a table and of any similarity matrix *)
InitQuery ==
    \E t \in QueryTables, m \in QueryMatrices :
        /\ rating_file = CsvFile(RatingColumns, t)
        /\ meta_file = JsonFile(DemoCatalog)
        /\ pc = "built"
        /\ ratings_df = [columns |-> RatingColumns, rows |-> t]
        /\ travel_meta = DemoCatalog
        /\ item_similarity_df = m
        /\ op = "None"
        /\ target = "None"
        /\ top_n = 0
        /\ item_ids = <<>>
        /\ result = <<>>
        /\ raised = "None"

NextQuery == CallRecommendForUser

SpecQuery == InitQuery /\ [][NextQuery]_vars

(* The metadata resolver over every bounded catalog *)
InitMeta ==
    \E c \in Catalogs : InitWith(CsvFile(RatingColumns, ScenarioA), JsonFile(c))

NextMeta ==
    \/ CallLoadData
    \/ CallGetItemsInfo

SpecMeta == InitMeta /\ [][NextMeta]_vars

(* The loader over missing, unparsable and incomplete sources *)
MetaRequiredKeys == {"id", "title"}
LoadTables == {t \in RatingTables : Cardinality(t) <= 1}
RatingFiles ==
    {MissingFile, UnparsableFile} \cup
    {CsvFile(columns, t) : columns \in (SUBSET RatingColumns) \ {{}}, t \in LoadTables}
LoadItemObjects == {Item("CJU001", "a"), [title |-> "a"], [id |-> "CJU001"]}
LoadCatalogs ==
    {DemoCatalog} \cup
    {<<[category |-> "nature", items |-> l]>> :
        l \in UNION {[1 .. k -> LoadItemObjects] : k \in 0 .. 1}}
MetaFiles == {MissingFile, UnparsableFile} \cup {JsonFile(c) : c \in LoadCatalogs}

InitLoad == \E rf \in RatingFiles, mf \in MetaFiles : InitWith(rf, mf)

NextLoad ==
    \/ CallLoadData
    \/ CallCreateItemSimilarityMatrix
    \/ CallGetItemsInfo

SpecLoad == InitLoad /\ [][NextLoad]_vars

----------------------------------------------------------------------------
(* Properties *)

Index == DOMAIN item_similarity_df
RatedBy(u) == {r.item_id : r \in {q \in ratings_df.rows : q.user_id = u}}
Distinct(s) == \A a, b \in DOMAIN s : a # b => s[a] # s[b]

(* The favorites of user u (rating >= 4.0) that the matrix holds *)
FavoritesInMatrix(u) ==
    {r.item_id :
        r \in {q \in ratings_df.rows : q.user_id = u /\ q.rating >= FavoriteThreshold}}
    \cap Index

(* The sum over the favorites f # c of user u of similarity(f, c) *)
SumOfSimilarities(u, c) ==
    SumOver([f \in FavoritesInMatrix(u) |-> item_similarity_df[f][c]],
            FavoritesInMatrix(u) \ {c})

(* C1: the list returned by recommend_for_user holds no item for which the
   rating table has a record of the target user, whatever the rating. *)
C1_NeverRecommendsRated ==
    op = "recommend_for_user" =>
        \A k \in DOMAIN result :
            ~(\E r \in ratings_df.rows : r.user_id = target /\ r.item_id = result[k])

(* Scenario B: U1 rated CJU001 = 5.0 and CJU002 = 2.0, top_n = 1, and the rated
   CJU002 is more similar to the favorite than the item returned. *)
C1_Witness ==
    /\ op = "recommend_for_user"
    /\ target = "U1"
    /\ top_n = 1
    /\ UserRatings(ratings_df.rows, "U1") =
           {Record("U1", "CJU001", 5), Record("U1", "CJU002", 2)}
    /\ {"CJU001", "CJU002"} \subseteq Index
    /\ Len(result) = 1
    /\ item_similarity_df["CJU001"]["CJU002"] > item_similarity_df["CJU001"][result[1]]

(* C2: recommend_for_user returns the empty list without raising when the user
   has no record or only ratings strictly below 4.0; a rating of exactly 4.0
   makes a favorite, so such a user with an unrated matrix item gets a result. *)
C2_EmptyWithoutFavorites ==
    op = "recommend_for_user" =>
        /\ raised = "None"
        /\ (\A r \in UserRatings(ratings_df.rows, target) : r.rating < 4) => result = <<>>
        /\ ( /\ \E r \in UserRatings(ratings_df.rows, target) :
                    r.rating = 4 /\ r.item_id \in Index
             /\ Index \ RatedBy(target) # {}
             /\ top_n >= 1 ) => result # <<>>

(* A user with records, all below 4.0, although the matrix holds unrated items *)
C2_Witness ==
    /\ op = "recommend_for_user"
    /\ UserRatings(ratings_df.rows, target) # {}
    /\ \A r \in UserRatings(ratings_df.rows, target) : r.rating < 4
    /\ RatedBy(target) \subseteq Index
    /\ Index \ RatedBy(target) # {}
    /\ top_n >= 1
    /\ result = <<>>

(* C3: for a target in the matrix, recommend_items returns distinct matrix items
   other than the target, min(top_n, items - 1) of them for top_n >= 0, in
   non-increasing similarity to the target, and no item left out is strictly
   more similar to the target than an item returned. *)
C3_SimilarItemsRanked ==
    (op = "recommend_items" /\ target \in Index) =>
        /\ raised = "None"
        /\ \A k \in DOMAIN result : result[k] \in Index \ {target}
        /\ Distinct(result)
        /\ top_n >= 0 => Len(result) = Min(top_n, Cardinality(Index) - 1)
        /\ \A a, b \in DOMAIN result :
              a < b => item_similarity_df[target][result[a]]
                          >= item_similarity_df[target][result[b]]
        /\ \A x \in (Index \ {target}) \ Range(result) :
              \A k \in DOMAIN result :
                 item_similarity_df[target][x] <= item_similarity_df[target][result[k]]

(* top_n = 1 of two other items with different non-zero similarities *)
C3_Witness ==
    /\ op = "recommend_items"
    /\ target \in Index
    /\ top_n = 1
    /\ Len(result) = 1
    /\ \E x \in (Index \ {target}) \ Range(result) :
          /\ item_similarity_df[target][x] > 0
          /\ item_similarity_df[target][x] < item_similarity_df[target][result[1]]

(* C4: recommend_items with a target that is no index entry of the matrix
   returns the empty list for every top_n and raises nothing. *)
C4_UnknownTargetEmpty ==
    (op = "recommend_items" /\ target \notin Index) =>
        (result = <<>> /\ raised = "None")

(* Scenario C: similar_items("UNKNOWN_ID", top_n = 3) on a matrix of three items *)
C4_Witness ==
    /\ op = "recommend_items"
    /\ target = "UNKNOWN_ID"
    /\ top_n = 3
    /\ Cardinality(Index) = 3

(* C5: recommend_for_user ranks by the sum over the user's favorites in the
   matrix of similarity(f, c): the result is in non-increasing order of that
   sum, and no unrated matrix item left out has a strictly higher sum than an
   item returned. *)
C5_RankedBySummedSimilarity ==
    op = "recommend_for_user" =>
        /\ \A k \in DOMAIN result : result[k] \in Index
        /\ \A a, b \in DOMAIN result :
              a < b => SumOfSimilarities(target, result[a])
                          >= SumOfSimilarities(target, result[b])
        /\ FavoritesInMatrix(target) # {} =>
              \A c \in (Index \ RatedBy(target)) \ Range(result) :
                 \A k \in DOMAIN result :
                    SumOfSimilarities(target, c) <= SumOfSimilarities(target, result[k])

(* Two favorites; the first item returned is similar to both, the second to one *)
C5_Witness ==
    /\ op = "recommend_for_user"
    /\ Cardinality(FavoritesInMatrix(target)) = 2
    /\ Len(result) = 2
    /\ \A f \in FavoritesInMatrix(target) : item_similarity_df[f][result[1]] > 0
    /\ SumOfSimilarities(target, result[1]) > SumOfSimilarities(target, result[2])
    /\ SumOfSimilarities(target, result[2]) > 0

(* C6: for top_n >= 0 and a user with a favorite in the matrix,
   recommend_for_user returns exactly min(top_n, unrated matrix items)
   distinct items and raises nothing: no padding, zero scores included. *)
C6_ReturnsAllSurvivors ==
    (op = "recommend_for_user" /\ top_n >= 0 /\ FavoritesInMatrix(target) # {}) =>
        /\ raised = "None"
        /\ Len(result) = Min(top_n, Cardinality(Index \ RatedBy(target)))
        /\ Distinct(result)

(* Fewer survivors than top_n, one of them with an accumulated score of 0 *)
C6_Witness ==
    /\ op = "recommend_for_user"
    /\ FavoritesInMatrix(target) # {}
    /\ top_n > Len(result)
    /\ \E k \in DOMAIN result : SumOfSimilarities(target, result[k]) = 0
    /\ \E k \in DOMAIN result : SumOfSimilarities(target, result[k]) > 0

(* The categories of the catalog that hold an item object with this id *)
CategoriesWith(id) ==
    {c \in DOMAIN travel_meta :
        \E k \in DOMAIN travel_meta[c].items : travel_meta[c].items[k].id = id}
InCatalog(id) == CategoriesWith(id) # {}
FirstRecord(id) ==
    LET c == CHOOSE x \in CategoriesWith(id) : \A y \in CategoriesWith(id) : x <= y
        items == travel_meta[c].items
        k == CHOOSE a \in DOMAIN items :
                /\ items[a].id = id
                /\ \A b \in DOMAIN items : items[b].id = id => a <= b
    IN  items[k]

(* C7: get_items_info returns, in the order of item_ids, one record for each
   id that occurs in the catalog and nothing for the others; the record is the
   first met in catalog order then list order. *)
C7_ResolvesInOrderFirstMatch ==
    op = "get_items_info" =>
        /\ raised = "None"
        /\ Len(result) = Len(SelectSeq(item_ids, InCatalog))
        /\ Len(result) <= Len(item_ids)
        /\ \A k \in DOMAIN result :
              result[k] = FirstRecord(SelectSeq(item_ids, InCatalog)[k])

(* Scenario D: an id in both categories with different records, and an
   unknown id before it in item_ids *)
C7_Witness ==
    /\ op = "get_items_info"
    /\ Len(item_ids) = 2
    /\ ~InCatalog(item_ids[1])
    /\ Cardinality(CategoriesWith(item_ids[2])) = 2
    /\ travel_meta[1].items[1].id # item_ids[2]
    /\ \E a \in DOMAIN travel_meta[1].items, b \in DOMAIN travel_meta[2].items :
          /\ travel_meta[1].items[a].id = item_ids[2]
          /\ travel_meta[2].items[b].id = item_ids[2]
          /\ travel_meta[1].items[a] # travel_meta[2].items[b]
    /\ Len(result) = 1

HasNonZeroRating(i) == \E r \in ratings_df.rows : r.item_id = i /\ r.rating # 0

(* C8: in the built matrix similarity(i, i) is 1.0 when item i has a non-zero
   rating and 0.0 otherwise; an item whose ratings are all 0.0 has similarity
   0.0 to every item, and the build of a non-empty table never fails. *)
C8_DiagonalAndZeroNorm ==
    /\ pc \in {"built", "queried"} =>
          \A i \in Index :
             /\ item_similarity_df[i][i] = IF HasNonZeroRating(i) THEN SCALE ELSE 0
             /\ ~HasNonZeroRating(i) =>
                   \A j \in Index :
                      item_similarity_df[i][j] = 0 /\ item_similarity_df[j][i] = 0
    /\ pc = "build_failed" => ratings_df.rows = {}

(* A built matrix with a zero-norm item beside an item with a non-zero rating *)
C8_Witness ==
    /\ pc = "built"
    /\ \E i, j \in Index : ~HasNonZeroRating(i) /\ HasNonZeroRating(j)

(* C9, as stated: for the table of Scenario A,
   similarity(CJU001, CJU003) > similarity(CJU001, CJU002). *)
C9_Original ==
    (pc = "built" /\ ratings_df.rows = ScenarioA) =>
        item_similarity_df["CJU001"]["CJU003"] > item_similarity_df["CJU001"]["CJU002"]

(* C9, amended: for the table of Scenario A,
   similarity(CJU001, CJU003) = 4/sqrt(41) is lower than
   similarity(CJU001, CJU002) = 5/sqrt(41). *)
C9_ScenarioA ==
    (pc = "built" /\ ratings_df.rows = ScenarioA) =>
        /\ item_similarity_df["CJU001"]["CJU003"] < item_similarity_df["CJU001"]["CJU002"]
        /\ item_similarity_df["CJU001"]["CJU003"] = ScaledRatio(4, 41)
        /\ item_similarity_df["CJU001"]["CJU002"] = ScaledRatio(5, 41)

C9_Witness == pc = "built" /\ ratings_df.rows = ScenarioA

WellFormedCatalog(doc) ==
    \A c \in DOMAIN doc :
        \A k \in DOMAIN doc[c].items : MetaRequiredKeys \subseteq DOMAIN doc[c].items[k]

ValidSources ==
    /\ rating_file.kind = "table"
    /\ RatingColumns \subseteq rating_file.columns
    /\ meta_file.kind = "document"
    /\ WellFormedCatalog(meta_file.rows)

(* C10: load_data fails, returning no rating table and no catalog, whenever a
   source is missing or malformed, a rating source without one of the columns
   user_id, item_id, rating and a catalog without required keys included. *)
C10_LoadFailsOnInvalidSource ==
    (pc # "start" /\ ~ValidSources) =>
        (pc = "load_failed" /\ ratings_df = NoTable /\ travel_meta = NoCatalog)

====
